---- MODULE Spec2Model ----
(***************************************************************************)
(* Model of EE24B021_A4/digitalsim.py: a combinational logic simulator.    *)
(* parse_netlist, topo_sort, eval_gate, simulate, to_wavedrom_json and     *)
(* main are translated from the Python source.                             *)
(*                                                                         *)
(* Text is modelled at token level.  A line of the input is a record       *)
(*   [head, toks]                                                          *)
(* head "INPUTS:" / "OUTPUTS:" / "GATES:" / "STIMULUS:" : a line that      *)
(*      starts with that prefix, toks = the whitespace-separated tokens    *)
(*      after the colon;                                                   *)
(* head "gate" : a line of the shape  out = TYP(X) with X not empty, and   *)
(*      toks = <<out, TYP, a1, a2, ...>> where a1, a2, ... are the pieces  *)
(*      of X split at "," and stripped (X of blanks only gives <<"">>);    *)
(* head "text" : any other line, toks = line.split();                      *)
(* head "#" : a comment line;  head "" : a blank line.                     *)
(***************************************************************************)
EXTENDS Integers, Sequences, FiniteSets, TLC

\* ------------------------------------------------------------------------
\* Bounds of the explored inputs
\* ------------------------------------------------------------------------
MaxGates == 2
MaxEvents == 2
MaxArgs == 3

VARIABLES
    text,      \* the lines of the netlist file read by main
    pc,        \* position of the program
    err,       \* message of the exception that ended the run, "" when none
    parsed,    \* (inputs, outputs, gates, stimuli) returned by parse_netlist
    deps,      \* topo_sort: gate name -> set of unsatisfied gate dependencies
    ready,     \* topo_sort: list of gates with no unsatisfied dependency
    order,     \* topo_sort: list of (name, type) emitted so far
    signals,   \* simulate: name -> "0"/"1", the signal-value table
    written,   \* history: name -> number of the event that set signals[name]
    waves,     \* simulate: tracked name -> sequence of "0"/"1"
    ev,        \* simulate: number of stimulus events fully processed
    gi,        \* simulate: number of gates of `order` evaluated in this event
    js,        \* main: the document written at the end, <<>> before
    run,       \* number of the current call of simulate (1 or 2)
    first,     \* results of the first call of simulate, kept by the caller
    call       \* a direct call of eval_gate: [typ, args, ret]

vars == <<text, pc, err, parsed, deps, ready, order, signals, written, waves,
          ev, gi,
          js, run, first, call>>

\* ------------------------------------------------------------------------
\* Tokens.  Strings are atomic, so the character-level tests of the source
\* are tables over the tokens the explored inputs are built from.
\* ------------------------------------------------------------------------
\* [A-Za-z_][A-Za-z0-9_]*
IdentToks == {"A", "B", "G", "H", "K", "L", "U", "Z"}
\* pieces of a string over [A-Za-z0-9_\s], after strip()
ArgToks == IdentToks \cup {"", "1x", "a b", "0", "1"}
GateKinds == {"AND", "OR", "XOR", "NOT"}

\* int(tok): the tokens that int() accepts, and their values
IntTable ==
    ("-1" :> -1) @@ ("0" :> 0) @@ ("1" :> 1) @@ ("2" :> 2) @@ ("3" :> 3)
    @@ ("4" :> 4)

is_int(tok) == tok \in DOMAIN IntTable
int(tok) == IntTable[tok]

\* ------------------------------------------------------------------------
\* 1. parse_netlist
\* ------------------------------------------------------------------------
NotSkipped(ln) == ln.head # "" /\ ln.head # "#"
\* lines 22-23: strip, drop blank lines and comment lines
lines(txt) == SelectSeq(txt, NotSkipped)

startswith(ln, prefix) == ln.head = prefix

\* ln.split()
split(ln) ==
    IF ln.head = "text" THEN ln.toks
    ELSE IF ln.head = "gate" THEN <<ln.toks[1], "=", ln.toks[2]>>
    ELSE <<ln.head>> \o ln.toks

\* expect(prefix, idx) does not raise
expect(L, prefix, idx) == idx <= Len(L) /\ startswith(L[idx], prefix)

\* gate_re.match(line)
gate_re_match(ln) ==
    /\ ln.head = "gate"
    /\ Len(ln.toks) >= 3
    /\ ln.toks[1] \in IdentToks
    /\ ln.toks[2] \in GateKinds
    /\ \A k \in 3..Len(ln.toks) : ln.toks[k] \in ArgToks

Fail(msg) ==
    [err |-> msg, inputs |-> <<>>, outputs |-> <<>>, gates |-> <<>>,
     stimuli |-> <<>>]

\* the validation of one gate line, lines 67-72: the message raised, or ""
gate_error(out, typ, args, defined) ==
    IF typ = "NOT" /\ Len(args) # 1 THEN "Gate of type NOT must have 1 input"
    ELSE IF typ \in {"AND", "OR", "XOR"} /\ Len(args) # 2
        THEN "Gate must have 2 inputs"
    ELSE IF out \in defined THEN "Gate defined more than once"
    ELSE ""

\* the GATES loop, lines 57-76; i is the (1-based) index of the next line
RECURSIVE parse_gates(_, _, _, _)
parse_gates(L, i, gates, defined) ==
    IF i > Len(L) \/ startswith(L[i], "STIMULUS:")
    THEN [err |-> "", gates |-> gates, i |-> i]
    ELSE IF ~gate_re_match(L[i])
    THEN [err |-> "Invalid gate line", gates |-> gates, i |-> i]
    ELSE LET out  == L[i].toks[1]
             typ  == L[i].toks[2]
             args == SubSeq(L[i].toks, 3, Len(L[i].toks))
             e    == gate_error(out, typ, args, defined)
         IN  IF e # "" THEN [err |-> e, gates |-> gates, i |-> i]
             ELSE parse_gates(L, i + 1,
                      Append(gates,
                             [name |-> out, type |-> typ, inputs |-> args]),
                      defined \cup {out})

\* the time check written with < instead of <=
stimulus_error_equal_time(parts, inputs, last_time) ==
    IF Len(parts) # Len(inputs) + 1 THEN "Invalid stimulus line"
    ELSE IF ~is_int(parts[1]) THEN "invalid literal for int()"
    ELSE IF int(parts[1]) < last_time
        THEN "Stimulus times must be strictly increasing"
    ELSE IF \E k \in 2..Len(parts) : parts[k] \notin {"0", "1"}
        THEN "Stimulus values must be 0 or 1"
    ELSE ""

\* the checks of one stimulus line, lines 89-97: the message raised, or ""
stimulus_error(parts, inputs, last_time) ==
    IF Len(parts) # Len(inputs) + 1 THEN "Invalid stimulus line"
    ELSE IF ~is_int(parts[1]) THEN "invalid literal for int()"
    ELSE IF int(parts[1]) <= last_time
        THEN "Stimulus times must be strictly increasing"
    ELSE IF \E k \in 2..Len(parts) : parts[k] \notin {"0", "1"}
        THEN "Stimulus values must be 0 or 1"
    ELSE ""

\* the loop with no previous time for its first line: the first time is
\* compared with nothing
RECURSIVE parse_stimuli_first_unchecked(_, _, _, _, _)
parse_stimuli_first_unchecked(L, i, inputs, stimuli, last_time) ==
    IF i > Len(L) THEN [err |-> "", stimuli |-> stimuli]
    ELSE LET parts == split(L[i])
             prev  == IF stimuli = <<>> /\ parts # <<>> /\ is_int(parts[1])
                      THEN int(parts[1]) - 1 ELSE last_time
             e     == stimulus_error(parts, inputs, prev)
         IN  IF e # "" THEN [err |-> e, stimuli |-> stimuli]
             ELSE parse_stimuli_first_unchecked(L, i + 1, inputs,
                      Append(stimuli,
                             <<int(parts[1]), SubSeq(parts, 2, Len(parts))>>),
                      int(parts[1]))

\* the STIMULUS loop, lines 88-100
RECURSIVE parse_stimuli(_, _, _, _, _)
parse_stimuli(L, i, inputs, stimuli, last_time) ==
    IF i > Len(L) THEN [err |-> "", stimuli |-> stimuli]
    ELSE LET parts == split(L[i])
             e     == stimulus_error(parts, inputs, last_time)
         IN  IF e # "" THEN [err |-> e, stimuli |-> stimuli]
             ELSE parse_stimuli(L, i + 1, inputs,
                      Append(stimuli,
                             <<int(parts[1]), SubSeq(parts, 2, Len(parts))>>),
                      int(parts[1]))

parse_netlist(txt) ==
    LET L == lines(txt) IN
    IF ~expect(L, "INPUTS:", 1) THEN Fail("Expected 'INPUTS:' section")
    ELSE IF L[1].toks = <<>> THEN Fail("INPUTS section cannot be empty")
    ELSE IF ~expect(L, "OUTPUTS:", 2) THEN Fail("Expected 'OUTPUTS:' section")
    ELSE IF L[2].toks = <<>> THEN Fail("OUTPUTS section cannot be empty")
    ELSE IF ~expect(L, "GATES:", 3) THEN Fail("Expected 'GATES:' section")
    ELSE
    LET inputs  == L[1].toks
        outputs == L[2].toks
        pg == parse_gates(L, 4, <<>>, {inputs[k] : k \in 1..Len(inputs)})
    IN
    IF pg.err # "" THEN Fail(pg.err)
    ELSE IF pg.gates = <<>> THEN Fail("GATES section cannot be empty")
    ELSE IF ~expect(L, "STIMULUS:", pg.i)
        THEN Fail("Expected 'STIMULUS:' section")
    ELSE
    LET ps == parse_stimuli(L, pg.i + 1, inputs, <<>>, -1) IN
    IF ps.err # "" THEN Fail(ps.err)
    ELSE [err |-> "", inputs |-> inputs, outputs |-> outputs,
          gates |-> pg.gates, stimuli |-> ps.stimuli]

\* ------------------------------------------------------------------------
\* 2. topo_sort
\* ------------------------------------------------------------------------
\* the keys of a dict built from the gate list, in insertion order
RECURSIVE dict_keys(_, _)
dict_keys(gates, seen) ==
    IF gates = <<>> THEN <<>>
    ELSE IF Head(gates).name \in seen THEN dict_keys(Tail(gates), seen)
    ELSE <<Head(gates).name>>
         \o dict_keys(Tail(gates), seen \cup {Head(gates).name})

\* the gate a dict comprehension keeps for a name: the last one declared
last_gate(gates, n) ==
    gates[CHOOSE k \in 1..Len(gates) :
              /\ gates[k].name = n
              /\ \A j \in (k + 1)..Len(gates) : gates[j].name # n]

gate_names(gates) == {gates[k].name : k \in 1..Len(gates)}

set_of(seq) == {seq[k] : k \in 1..Len(seq)}

\* only the gates declared before a gate count as its dependencies
deps_declared_before(gates) ==
    [n \in gate_names(gates) |->
        {d \in set_of(last_gate(gates, n).inputs) :
            \E k \in 1..Len(gates) :
                gates[k].name = n /\ \E j \in 1..(k - 1) : gates[j].name = d}]

\* every argument counts as a dependency, primary inputs too
deps_unfiltered(gates) ==
    [n \in gate_names(gates) |-> set_of(last_gate(gates, n).inputs)]

\* no gate waits for another
deps_none(gates) == [n \in gate_names(gates) |-> {}]

\* lines 109-113: deps restricted to the names that are gate outputs
deps_of(gates) ==
    [n \in gate_names(gates) |->
        {d \in set_of(last_gate(gates, n).inputs) : d \in gate_names(gates)}]

\* line 115
type_lookup(gates) ==
    [n \in gate_names(gates) |-> last_gate(gates, n).type]

\* line 118: the gates without dependencies, in dict order
ready_of(gates) ==
    LET d == deps_of(gates)
        free(g) == d[g] = {}
    IN  SelectSeq(dict_keys(gates, {}), free)

\* `ready` kept as an unordered collection: any element may be popped
pop_any(rdy) == 1..Len(rdy)

\* line 121: the positions of `ready` that list.pop() may take
pop_positions(rdy) == {Len(rdy)}

remove_at(seq, p) == SubSeq(seq, 1, p - 1) \o SubSeq(seq, p + 1, Len(seq))

\* lines 123-127: the gates whose last dependency was `node`, in dict order
released(d, keys, node) ==
    LET freed(h) == node \in d[h] /\ d[h] \ {node} = {}
    IN  SelectSeq(keys, freed)

\* ------------------------------------------------------------------------
\* 3. eval_gate: [val, exc], exc = "" when a value is returned
\* ------------------------------------------------------------------------
Ret(v) == [val |-> v, exc |-> ""]
Exc(e) == [val |-> "", exc |-> e]

\* XOR computed as OR
eval_gate_xor_as_or(typ, args) ==
    IF typ = "NOT" THEN
        IF Len(args) < 1 THEN Exc("IndexError")
        ELSE Ret(IF args[1] = "1" THEN "0" ELSE "1")
    ELSE IF typ = "AND" THEN
        IF Len(args) < 1 THEN Exc("IndexError")
        ELSE IF args[1] # "1" THEN Ret("0")
        ELSE IF Len(args) < 2 THEN Exc("IndexError")
        ELSE Ret(IF args[2] = "1" THEN "1" ELSE "0")
    ELSE IF typ \in {"OR", "XOR"} THEN
        IF Len(args) < 1 THEN Exc("IndexError")
        ELSE IF args[1] = "1" THEN Ret("1")
        ELSE IF Len(args) < 2 THEN Exc("IndexError")
        ELSE Ret(IF args[2] = "1" THEN "1" ELSE "0")
    ELSE Exc("Unknown gate type")

eval_gate(typ, args) ==
    IF typ = "NOT" THEN
        IF Len(args) < 1 THEN Exc("IndexError")
        ELSE Ret(IF args[1] = "1" THEN "0" ELSE "1")
    ELSE IF typ = "AND" THEN
        IF Len(args) < 1 THEN Exc("IndexError")
        ELSE IF args[1] # "1" THEN Ret("0")
        ELSE IF Len(args) < 2 THEN Exc("IndexError")
        ELSE Ret(IF args[2] = "1" THEN "1" ELSE "0")
    ELSE IF typ = "OR" THEN
        IF Len(args) < 1 THEN Exc("IndexError")
        ELSE IF args[1] = "1" THEN Ret("1")
        ELSE IF Len(args) < 2 THEN Exc("IndexError")
        ELSE Ret(IF args[2] = "1" THEN "1" ELSE "0")
    ELSE IF typ = "XOR" THEN
        IF Len(args) < 2 THEN Exc("IndexError")
        ELSE Ret(IF args[1] # args[2] THEN "1" ELSE "0")
    ELSE Exc("Unknown gate type")

\* ------------------------------------------------------------------------
\* 4. simulate
\* ------------------------------------------------------------------------
EmptyMap == <<>>

Min(a, b) == IF a < b THEN a ELSE b

\* only the names without a value are set
bind_inputs_missing_only(sig, inputs, values) ==
    LET m == Min(Len(inputs), Len(values))
        first_pos(n) == CHOOSE k \in 1..m :
                            inputs[k] = n /\ \A j \in 1..(k - 1) : inputs[j] # n
    IN  [n \in (DOMAIN sig) \cup {inputs[k] : k \in 1..m} |->
            IF n \in DOMAIN sig THEN sig[n] ELSE values[first_pos(n)]]

\* lines 163-164: for name, val in zip(inputs, values): signals[name] = val
bind_inputs(sig, inputs, values) ==
    LET m == Min(Len(inputs), Len(values))
        bound == {inputs[k] : k \in 1..m}
        lastpos(n) == CHOOSE k \in 1..m :
                          inputs[k] = n /\ \A j \in (k + 1)..m : inputs[j] # n
    IN  [n \in (DOMAIN sig) \cup bound |->
            IF n \in bound THEN values[lastpos(n)] ELSE sig[n]]

\* line 168: next(g for g in gates if g["name"] == gname)
find_gate(gates, gname) ==
    gates[CHOOSE k \in 1..Len(gates) :
              /\ gates[k].name = gname
              /\ \A j \in 1..(k - 1) : gates[j].name # gname]

\* lines 168-170 for one entry of `order`: [err, signals]
eval_step(sig, gates, entry) ==
    LET g == find_gate(gates, entry[1]) IN
    IF \E k \in 1..Len(g.inputs) : g.inputs[k] \notin DOMAIN sig
    THEN [err |-> "KeyError", signals |-> sig]
    ELSE LET arg_vals == [k \in 1..Len(g.inputs) |-> sig[g.inputs[k]]]
             r == eval_gate(entry[2], arg_vals)
         IN  IF r.exc # "" THEN [err |-> r.exc, signals |-> sig]
             ELSE [err |-> "",
                   signals |-> [n \in (DOMAIN sig) \cup {entry[1]} |->
                                   IF n = entry[1] THEN r.val ELSE sig[n]]]

\* lines 167-170: the loop over the entries i, i + 1, ... of an order, left
\* at the first exception: [err, signals]
RECURSIVE eval_order(_, _, _, _)
eval_order(sig, gates, ord, i) ==
    IF i > Len(ord) THEN [err |-> "", signals |-> sig]
    ELSE LET r == eval_step(sig, gates, ord[i]) IN
         IF r.err # "" THEN r ELSE eval_order(r.signals, gates, ord, i + 1)

\* lines 173-176 over inputs + outputs: waves[name] += signals[name]
RECURSIVE record_waves(_, _, _)
record_waves(names, w, sig) ==
    IF names = <<>> THEN [err |-> "", waves |-> w]
    ELSE IF Head(names) \notin DOMAIN sig
    THEN [err |-> "KeyError", waves |-> w]
    ELSE record_waves(Tail(names),
                      [w EXCEPT ![Head(names)] = Append(@, sig[Head(names)])],
                      sig)

\* line 159: waves = {s: "" for s in inputs + outputs}
init_waves(inputs, outputs) ==
    [s \in set_of(inputs) \cup set_of(outputs) |-> <<>>]

\* the loop over stimuli left after its first event
events_left_first_only(stimuli, n) == n < Min(1, Len(stimuli))

\* `for t, values in stimuli`, line 161: the loop has another event to take
\* after n events
events_left(stimuli, n) == n < Len(stimuli)

\* ------------------------------------------------------------------------
\* 5. to_wavedrom_json: the list under "signal"
\* ------------------------------------------------------------------------
to_wavedrom_json(inputs, outputs, w) ==
    [k \in 1..(Len(inputs) + Len(outputs)) |->
        LET name == (inputs \o outputs)[k]
        IN  [name |-> name, wave |-> w[name]]]

\* ------------------------------------------------------------------------
\* 6. The program: main, step by step
\* ------------------------------------------------------------------------
\* the sequences of length n, and of length at most n, over S
RECURSIVE Seqs(_, _)
Seqs(S, n) ==
    IF n = 0 THEN {<<>>}
    ELSE {Append(q, x) : q \in Seqs(S, n - 1), x \in S}

SeqsUpTo(S, n) == UNION {Seqs(S, k) : k \in 0..n}

NoNetlist ==
    [inputs |-> <<>>, outputs |-> <<>>, gates |-> <<>>, stimuli |-> <<>>]
NoFirst == [order |-> <<>>, waves |-> EmptyMap, stimuli |-> <<>>]
NoCall == [typ |-> "", args |-> <<>>, ret |-> Ret("")]

\* main, lines 200-201: parsed = parse_netlist(text)
ParseNetlist ==
    /\ pc = "start"
    /\ LET r == parse_netlist(text) IN
       IF r.err # ""
       THEN /\ pc' = "error"
            /\ err' = r.err
            /\ UNCHANGED parsed
       ELSE /\ pc' = "parsed"
            /\ parsed' = [inputs |-> r.inputs, outputs |-> r.outputs,
                          gates |-> r.gates, stimuli |-> r.stimuli]
            /\ UNCHANGED err
    /\ UNCHANGED <<text, deps, ready, order, signals, written, waves, ev, gi,
                   js, run, first, call>>

\* simulate enters topo_sort, lines 155-156 and 109-118
TopoBegin ==
    /\ pc = "parsed"
    /\ deps' = deps_of(parsed.gates)
    /\ ready' = ready_of(parsed.gates)
    /\ order' = <<>>
    /\ pc' = "topo"
    /\ UNCHANGED <<text, err, parsed, signals, written, waves, ev, gi, js, run,
                   first, call>>

\* one iteration of `while ready`, lines 120-127
TopoStep ==
    /\ pc = "topo"
    /\ ready # <<>>
    /\ \E p \in pop_positions(ready) :
          LET node == ready[p] IN
          /\ order' = Append(order, <<node, type_lookup(parsed.gates)[node]>>)
          /\ deps' = [h \in DOMAIN deps |-> deps[h] \ {node}]
          /\ ready' = remove_at(ready, p)
                       \o released(deps, dict_keys(parsed.gates, {}), node)
    /\ UNCHANGED <<text, pc, err, parsed, signals, written, waves, ev, gi, js,
                   run, first, call>>

\* the loop of topo_sort is left, lines 129-132; simulate goes on, 158-159
TopoEnd ==
    /\ pc = "topo"
    /\ ready = <<>>
    /\ IF Len(order) # Len(parsed.gates)
       THEN /\ pc' = "error"
            /\ err' = "Cyclic or unresolved gate dependencies detected"
            /\ UNCHANGED <<signals, written, waves, ev, gi>>
       ELSE /\ pc' = "event"
            /\ signals' = EmptyMap
            /\ written' = EmptyMap
            /\ waves' = init_waves(parsed.inputs, parsed.outputs)
            /\ ev' = 0
            /\ gi' = 0
            /\ UNCHANGED err
    /\ UNCHANGED <<text, parsed, deps, ready, order, js, run, first, call>>

\* the next stimulus event is taken and the inputs are set, lines 161-164
SimBind ==
    /\ pc = "event"
    /\ events_left(parsed.stimuli, ev)
    /\ signals' = bind_inputs(signals, parsed.inputs, parsed.stimuli[ev + 1][2])
    /\ LET values == parsed.stimuli[ev + 1][2] IN
       written' = bind_inputs(written, parsed.inputs,
                              [k \in 1..Len(values) |-> ev + 1])
    /\ gi' = 0
    /\ pc' = "eval"
    /\ UNCHANGED <<text, err, parsed, deps, ready, order, waves, ev, js, run,
                   first, call>>

\* one gate of the order is evaluated, lines 167-170
SimEvalGate ==
    /\ pc = "eval"
    /\ gi < Len(order)
    /\ LET r == eval_step(signals, parsed.gates, order[gi + 1]) IN
       IF r.err # ""
       THEN /\ pc' = "error"
            /\ err' = r.err
            /\ UNCHANGED <<signals, written, gi>>
       ELSE /\ signals' = r.signals
            /\ written' = [n \in DOMAIN r.signals |->
                              IF n = order[gi + 1][1] THEN ev + 1
                              ELSE written[n]]
            /\ gi' = gi + 1
            /\ UNCHANGED <<pc, err>>
    /\ UNCHANGED <<text, parsed, deps, ready, order, waves, ev, js, run, first,
                   call>>

\* the values of the event are recorded, lines 173-176
SimRecord ==
    /\ pc = "eval"
    /\ gi = Len(order)
    /\ LET r == record_waves(parsed.inputs \o parsed.outputs, waves, signals)
       IN
       /\ waves' = r.waves
       /\ IF r.err # ""
          THEN /\ pc' = "error"
               /\ err' = r.err
               /\ UNCHANGED ev
          ELSE /\ pc' = "event"
               /\ ev' = ev + 1
               /\ UNCHANGED err
    /\ UNCHANGED <<text, parsed, deps, ready, order, signals, written, gi, js,
                   run, first, call>>

\* no stimulus event is left: return waves, line 178
SimReturn ==
    /\ pc = "event"
    /\ ~events_left(parsed.stimuli, ev)
    /\ pc' = "simulated"
    /\ UNCHANGED <<text, err, parsed, deps, ready, order, signals, written,
                   waves, ev, gi, js, run, first, call>>

\* main, lines 203-212: the document is built and written
WriteOutput ==
    /\ pc = "simulated"
    /\ run = 1
    /\ js' = to_wavedrom_json(parsed.inputs, parsed.outputs, waves)
    /\ pc' = "done"
    /\ UNCHANGED <<text, err, parsed, deps, ready, order, signals, written,
                   waves, ev, gi, run, first, call>>

\* a caller keeps the result and calls simulate(parsed) a second time
SimulateAgain ==
    /\ pc = "done"
    /\ run = 1
    /\ first' = [order |-> order, waves |-> waves, stimuli |-> parsed.stimuli]
    /\ run' = 2
    /\ pc' = "parsed"
    /\ UNCHANGED <<text, err, parsed, deps, ready, order, signals, written,
                   waves, ev, gi, js, call>>

\* parsed stimulus lists of at most MaxEvents events over n inputs
RECURSIVE AltSeqs(_, _)
AltSeqs(V, k) ==
    IF k = 0 THEN {<<>>}
    ELSE {Append(q, <<k - 1, v>>) : q \in AltSeqs(V, k - 1), v \in V}

AltStimuli(n) == UNION {AltSeqs(Seqs({"0", "1"}, n), k) : k \in 0..MaxEvents}

\* a caller keeps the result and calls simulate on the same netlist with
\* another stimulus sequence
SimulateOther ==
    /\ pc = "done"
    /\ run = 1
    /\ first' = [order |-> order, waves |-> waves, stimuli |-> parsed.stimuli]
    /\ run' = 2
    /\ \E s2 \in AltStimuli(Len(parsed.inputs)) :
          parsed' = [parsed EXCEPT !.stimuli = s2]
    /\ pc' = "parsed"
    /\ UNCHANGED <<text, err, deps, ready, order, signals, written, waves, ev,
                   gi, js, call>>

\* a direct call of eval_gate(typ, args)
EvalGateCall ==
    /\ pc = "eval_call"
    /\ call' = [call EXCEPT !.ret = eval_gate(call.typ, call.args)]
    /\ pc' = "eval_ret"
    /\ UNCHANGED <<text, err, parsed, deps, ready, order, signals, written,
                   waves, ev, gi, js, run, first>>

\* ------------------------------------------------------------------------
\* 7. The explored inputs
\* ------------------------------------------------------------------------
Hdr(h, toks) == [head |-> h, toks |-> toks]
Txt(toks) == [head |-> "text", toks |-> toks]
\* body = <<TYP, a1, ...>>
GateLine(out, body) == [head |-> "gate", toks |-> <<out>> \o body]

Doc(inputs, outputs, gateLines, stimLines) ==
    <<Hdr("INPUTS:", inputs), Hdr("OUTPUTS:", outputs), Hdr("GATES:", <<>>)>>
    \o gateLines \o <<Hdr("STIMULUS:", <<>>)>> \o stimLines

GateNameSeq == <<"G", "H", "K", "L", "Z">>
TimeTok == <<"0", "1", "2", "3", "4">>
Bits == {"0", "1"}

\* stimulus sections of k lines with times 0, 1, ... and vectors from V
RECURSIVE StimSeqs(_, _)
StimSeqs(V, k) ==
    IF k = 0 THEN {<<>>}
    ELSE {Append(q, Txt(<<TimeTok[k]>> \o v)) : q \in StimSeqs(V, k - 1), v \in V}

StimUpTo(V, n) == UNION {StimSeqs(V, k) : k \in 0..n}

\* Dependency shapes: n gates G, H, ... of kind NOT or AND whose arguments
\* are the input A, the undefined name U or any of the n gates.
TopoBodies(n) ==
    LET sig == {"A", "U"} \cup {GateNameSeq[j] : j \in 1..n}
    IN  {<<"NOT", a>> : a \in sig} \cup {<<"AND", a, b>> : a \in sig, b \in sig}

RECURSIVE TopoGateSeqs(_, _)
TopoGateSeqs(n, j) ==
    IF j = 0 THEN {<<>>}
    ELSE {Append(q, GateLine(GateNameSeq[j], b)) :
              q \in TopoGateSeqs(n, j - 1), b \in TopoBodies(n)}

TopoDocs(n) ==
    {Doc(<<"A">>, <<"G">>, g, st) :
        g \in TopoGateSeqs(n, n), st \in StimUpTo({<<"1">>}, 1)}

\* Circuits: a chain of n gates of every kind over the inputs A, B, with
\* every stimulus sequence of at most MaxEvents events.
SimBodies(j) ==
    IF j = 1
    THEN {<<t, "A", "B">> : t \in {"AND", "OR", "XOR"}} \cup {<<"NOT", "A">>}
    ELSE {<<t, GateNameSeq[j - 1], "B">> : t \in {"AND", "OR", "XOR"}}
         \cup {<<"NOT", GateNameSeq[j - 1]>>}

RECURSIVE SimGateSeqs(_)
SimGateSeqs(j) ==
    IF j = 0 THEN {<<>>}
    ELSE {Append(q, GateLine(GateNameSeq[j], b)) :
              q \in SimGateSeqs(j - 1), b \in SimBodies(j)}

SimDocs(n) ==
    {Doc(<<"A", "B">>, outs, g, st) :
        outs \in {<<GateNameSeq[n]>>, <<"A", GateNameSeq[n]>>},
        g \in SimGateSeqs(n),
        st \in StimUpTo(Seqs(Bits, 2), MaxEvents)}

\* Stimulus sections of any tokens
StimLines ==
    {Txt(<<t>> \o v) : t \in {"-1", "0", "1"},
                       v \in Seqs({"0", "1", "2"}, 1) \cup Seqs({"0", "1", "2"}, 2)}

StimulusDocs(k) ==
    {Doc(ins, <<"G">>, <<GateLine("G", <<"NOT", "A">>)>>, st) :
        ins \in {<<"A">>, <<"A", "B">>}, st \in Seqs(StimLines, k)}

BadTimeDoc ==
    Doc(<<"A">>, <<"G">>, <<GateLine("G", <<"NOT", "A">>)>>,
        <<Txt(<<"x", "1">>)>>)

\* Names: input lists, output lists and gate sections of every sort
NameGateSections ==
    {<<>>,
     <<GateLine("G", <<"NOT", "A">>)>>,
     <<GateLine("G", <<"NOT", "A">>), GateLine("G", <<"NOT", "A">>)>>,
     <<GateLine("A", <<"NOT", "A">>)>>,
     <<GateLine("G", <<"NOT", "A", "A">>)>>,
     <<GateLine("G", <<"AND", "A">>)>>,
     <<GateLine("G", <<"NOT", "A">>), GateLine("H", <<"AND", "G", "A">>)>>,
     <<GateLine("G", <<"NAND", "A", "A">>)>>,
     <<GateLine("1x", <<"NOT", "A">>)>>,
     <<Txt(<<"G", "=", "NOT()">>)>>}

NameDocs ==
    {Doc(ins, outs, g, st) :
        ins \in {<<>>, <<"A">>, <<"A", "A">>, <<"A", "G">>},
        outs \in {<<>>, <<"G">>, <<"A">>, <<"G", "G">>, <<"U">>},
        g \in NameGateSections,
        st \in {<<>>, <<Txt(<<"0", "1">>)>>, <<Txt(<<"0", "1", "0">>)>>}}

\* Orders: three gates with more than one topological order, declared in
\* every order, with every stimulus sequence of at most MaxEvents events
OrderShapes ==
    {<<GateLine("G", <<"NOT", "A">>), GateLine("H", <<"XOR", "A", "B">>),
       GateLine("K", <<t, "G", "H">>)>> : t \in {"AND", "OR", "XOR"}}
    \cup {<<GateLine("G", <<"NOT", "A">>), GateLine("H", <<"NOT", "G">>),
            GateLine("K", <<t, "A", "B">>)>> : t \in {"AND", "OR", "XOR"}}

OrderDocs ==
    {Doc(<<"A", "B">>, <<"G", "K">>, [k \in 1..3 |-> g[p[k]]], st) :
        g \in OrderShapes, p \in Permutations(1..3),
        st \in StimUpTo(Seqs(Bits, 2), MaxEvents)}

\* Argument tokens: one gate whose arguments are identifiers, empty,
\* start with a digit, hold a blank or hold a character outside the class
\* of gate_re, with no or one stimulus event
ArgTokenBodies ==
    {<<"NOT", x>> : x \in ArgToks \cup {"a-b"}}
    \cup {<<"AND", x, y>> : x, y \in {"A", "", "1x", "a b", "a-b"}}

ArgTokenDocs ==
    {Doc(<<"A">>, <<"G">>, <<GateLine("G", b)>>, st) :
        b \in ArgTokenBodies, st \in StimUpTo({<<"1">>}, 1)}

\* Structure: one line of a good file dropped, or a comment or blank line
\* put in front of one of its lines
GoodDoc ==
    Doc(<<"A">>, <<"G">>, <<GateLine("G", <<"NOT", "A">>)>>,
        <<Txt(<<"0", "1">>)>>)

StructureDocs ==
    {remove_at(GoodDoc, k) : k \in 1..Len(GoodDoc)}
    \cup {SubSeq(GoodDoc, 1, k - 1) \o <<Hdr(h, <<>>)>>
          \o SubSeq(GoodDoc, k, Len(GoodDoc)) :
              k \in 1..(Len(GoodDoc) + 1), h \in {"#", ""}}

InitOn(docs) ==
    /\ text \in docs
    /\ pc = "start"
    /\ err = ""
    /\ parsed = NoNetlist
    /\ deps = EmptyMap
    /\ ready = <<>>
    /\ order = <<>>
    /\ signals = EmptyMap
    /\ written = EmptyMap
    /\ waves = EmptyMap
    /\ ev = 0
    /\ gi = 0
    /\ js = <<>>
    /\ run = 1
    /\ first = NoFirst
    /\ call = NoCall

Init ==
    \/ \E n \in 1..MaxGates : InitOn(TopoDocs(n))
    \/ \E n \in 1..MaxGates : InitOn(SimDocs(n))
    \/ \E k \in 0..MaxEvents : InitOn(StimulusDocs(k))
    \/ InitOn({BadTimeDoc})
    \/ InitOn(NameDocs)
    \/ InitOn(OrderDocs)
    \/ InitOn(ArgTokenDocs)
    \/ InitOn(StructureDocs)


Next ==
    \/ ParseNetlist
    \/ TopoBegin
    \/ TopoStep
    \/ TopoEnd
    \/ SimBind
    \/ SimEvalGate
    \/ SimRecord
    \/ SimReturn
    \/ WriteOutput

Spec == Init /\ [][Next]_vars

\* simulate called twice on the parsed netlist
NextTwice == Next \/ SimulateAgain
SpecTwice == Init /\ [][NextTwice]_vars

\* simulate called on two stimulus sequences over one netlist
InitPair ==
    \/ \E n \in 1..MaxGates : InitOn(SimDocs(n))
    \/ InitOn(NameDocs)
NextPair == Next \/ SimulateOther
SpecPair == InitPair /\ [][NextPair]_vars

\* eval_gate called on any kind and any list of binary values
EvalKinds == GateKinds \cup {"NAND", "NOR", "XNOR", "BUF", "and", ""}

InitEval ==
    /\ text = <<>>
    /\ pc = "eval_call"
    /\ err = ""
    /\ parsed = NoNetlist
    /\ deps = EmptyMap
    /\ ready = <<>>
    /\ order = <<>>
    /\ signals = EmptyMap
    /\ written = EmptyMap
    /\ waves = EmptyMap
    /\ ev = 0
    /\ gi = 0
    /\ js = <<>>
    /\ run = 1
    /\ first = NoFirst
    /\ \E t \in EvalKinds : \E a \in SeqsUpTo(Bits, MaxArgs) :
          call = [typ |-> t, args |-> a, ret |-> Ret("")]

NextEval == EvalGateCall
SpecEval == InitEval /\ [][NextEval]_vars

\* ------------------------------------------------------------------------
\* 8. Properties
\* ------------------------------------------------------------------------
CyclicMsg == "Cyclic or unresolved gate dependencies detected"

\* parse_netlist has returned a netlist
Accepted == pc # "start" /\ parsed # NoNetlist

\* topo_sort has returned an order
TopoReturned == pc \in {"event", "eval", "simulated", "done"}

\* position of gate n in an order
Pos(ord, n) == CHOOSE k \in 1..Len(ord) : ord[k][1] = n

\* C1: when topo_sort returns, the order holds every gate exactly once and
\* every argument of a gate that is a gate output stands strictly before
\* the gate.
C1_ValidTopoOrder ==
    TopoReturned =>
        LET G == parsed.gates IN
        /\ Len(order) = Len(G)
        /\ \A g \in gate_names(G) :
              Cardinality({k \in 1..Len(order) : order[k][1] = g}) = 1
        /\ \A k \in 1..Len(G) : \A a \in set_of(G[k].inputs) :
              a \in gate_names(G) => Pos(order, a) < Pos(order, G[k].name)

\* topo_sort returned for a gate list in which a gate uses a gate declared
\* after it
C1_Witness ==
    /\ TopoReturned
    /\ \E j \in 1..Len(parsed.gates) : \E k \in (j + 1)..Len(parsed.gates) :
          parsed.gates[k].name \in set_of(parsed.gates[j].inputs)

\* the gates reached from the gates of S along n or fewer dependency edges
RECURSIVE Reach(_, _, _)
Reach(G, S, n) ==
    IF n = 0 THEN {}
    ELSE LET nxt == {a \in gate_names(G) :
                        \E k \in 1..Len(G) :
                            G[k].name \in S /\ a \in set_of(G[k].inputs)}
         IN  nxt \cup Reach(G, nxt, n - 1)

\* the gate-to-gate dependency graph has a cycle
HasCycle(G) == \E g \in gate_names(G) : g \in Reach(G, {g}, Len(G))

TopoRaised == pc = "error" /\ err = CyclicMsg

\* C2: topo_sort terminates (its loop is never stuck, every iteration
\* emits one gate and no more gates are emitted than the list holds), and it
\* raises the cyclic-dependency error exactly when the gate-to-gate
\* dependency graph has a cycle (a gate naming itself included).
C2_RaisesIffCycle ==
    /\ [](TopoRaised => HasCycle(parsed.gates))
    /\ [](TopoReturned => ~HasCycle(parsed.gates))
    /\ [](pc = "topo" => /\ Len(order) <= Len(parsed.gates)
                         /\ ENABLED (TopoStep \/ TopoEnd))
    /\ [][pc = "topo" =>
            \/ TopoRaised' \/ TopoReturned'
            \/ pc' = "topo" /\ Len(order') = Len(order) + 1]_vars

\* topo_sort raised for two gates that depend on each other
C2_Witness ==
    /\ TopoRaised
    /\ Len(parsed.gates) = 2
    /\ parsed.gates[2].name \in set_of(parsed.gates[1].inputs)
    /\ parsed.gates[1].name \in set_of(parsed.gates[2].inputs)

\* ---- values of signals, by the truth tables ----
Bit(c) == IF c = "1" THEN 1 ELSE 0
Char(b) == IF b = 1 THEN "1" ELSE "0"

Table(typ, b) ==
    CASE typ = "NOT" -> 1 - b[1]
      [] typ = "AND" -> b[1] * b[2]
      [] typ = "OR"  -> b[1] + b[2] - b[1] * b[2]
      [] typ = "XOR" -> (b[1] + b[2]) % 2

Arity(typ) == IF typ = "NOT" THEN 1 ELSE 2

Simulated == pc \in {"simulated", "done"}

\* every gate argument and every primary output is a primary input or a
\* gate output, and the gates form no cycle
WellFormed(N) ==
    LET known == set_of(N.inputs) \cup gate_names(N.gates) IN
    /\ ~HasCycle(N.gates)
    /\ \A k \in 1..Len(N.gates) : set_of(N.gates[k].inputs) \subseteq known
    /\ set_of(N.outputs) \subseteq known

\* the value of signal s when the inputs carry vec: an input's own value,
\* a gate's expression evaluated recursively
RECURSIVE SignalValue(_, _, _)
SignalValue(N, s, vec) ==
    IF s \in set_of(N.inputs)
    THEN Bit(vec[CHOOSE p \in 1..Len(N.inputs) :
                    N.inputs[p] = s
                    /\ \A q \in (p + 1)..Len(N.inputs) : N.inputs[q] # s])
    ELSE LET g == find_gate(N.gates, s)
             b == [k \in 1..Len(g.inputs) |-> SignalValue(N, g.inputs[k], vec)]
         IN  Table(g.type, b)

\* C3: for an accepted acyclic netlist with every name defined, the trace
\* of each primary output holds at event k the value of its gate expression
\* over the inputs of event k, and the trace of each primary input holds
\* the input's value in event k.
C3_TraceValues ==
    (Simulated /\ WellFormed(parsed)) =>
        \A k \in 1..Len(parsed.stimuli) :
            LET vec == parsed.stimuli[k][2] IN
            /\ \A o \in set_of(parsed.outputs) :
                  waves[o][k] = Char(SignalValue(parsed, o, vec))
            /\ \A p \in 1..Len(parsed.inputs) :
                  waves[parsed.inputs[p]][k] = vec[p]

\* C4: when simulate completes on an accepted netlist with N stimulus
\* events, the trace of every tracked signal has length N.
C4_TraceLength ==
    Simulated =>
        \A n \in DOMAIN waves : Len(waves[n]) = Len(parsed.stimuli)

\* some gate argument is neither a primary input nor a gate output
HasUndefinedArg(N) ==
    \E k \in 1..Len(N.gates) : \E a \in set_of(N.gates[k].inputs) :
        a \notin set_of(N.inputs) \cup gate_names(N.gates)

\* C5: a netlist with a gate argument that is neither a primary input nor
\* a gate output is rejected by topo_sort with the cyclic/unresolved error,
\* before any stimulus event is simulated.
C5_UndefinedRejected ==
    (Accepted /\ HasUndefinedArg(parsed)) =>
        (pc \in {"parsed", "topo"} \/ TopoRaised)

\* C6: a second call of simulate on the same parsed netlist returns the
\* same order and the same traces as the first and does not fail, and the
\* netlist is still what parse_netlist returned.
C6_SameTwice ==
    /\ run = 2 => pc # "error"
    /\ (run = 2 /\ TopoReturned) => order = first.order
    /\ (run = 2 /\ Simulated) => waves = first.waves
    /\ Accepted =>
          LET r == parse_netlist(text) IN
          parsed = [inputs |-> r.inputs, outputs |-> r.outputs,
                    gates |-> r.gates, stimuli |-> r.stimuli]

\* the second call has returned, for two gates that were both ready at the
\* start and at least one stimulus event
C6_Witness ==
    /\ run = 2
    /\ pc = "simulated"
    /\ Len(ready_of(parsed.gates)) >= 2
    /\ Len(parsed.stimuli) >= 1

\* C7: two stimulus sequences over one netlist that carry the same input
\* vector at position k give the same value at position k of the trace of
\* every tracked signal.
C7_NoMemory ==
    (run = 2 /\ Simulated) =>
        \A k \in 1..Min(Len(first.stimuli), Len(parsed.stimuli)) :
            first.stimuli[k][2] = parsed.stimuli[k][2] =>
                \A n \in DOMAIN waves : waves[n][k] = first.waves[n][k]

\* C8: eval_gate returns the truth-table value for NOT, AND, OR and XOR on
\* binary values and raises, returning nothing, for any other kind.
C8_TruthTable ==
    pc = "eval_ret" =>
        /\ (call.typ \in GateKinds /\ Len(call.args) = Arity(call.typ)) =>
              /\ call.ret.exc = ""
              /\ call.ret.val =
                     Char(Table(call.typ,
                                [k \in 1..Len(call.args) |-> Bit(call.args[k])]))
        /\ call.typ \notin GateKinds =>
              call.ret.exc # "" /\ call.ret.val = ""

\* XOR(1, 0) has returned
C8_Witness ==
    /\ pc = "eval_ret"
    /\ call.typ = "XOR"
    /\ call.args = <<"1", "0">>
    /\ call.ret.val = "1"

\* ---- the stimulus section as written in the file ----
\* index in lines(text) of the STIMULUS: header, 0 when there is none
StimHeader(L) ==
    IF \E i \in 1..Len(L) : L[i].head = "STIMULUS:"
    THEN CHOOSE i \in 1..Len(L) :
             L[i].head = "STIMULUS:"
             /\ \A j \in 1..(i - 1) : L[j].head # "STIMULUS:"
    ELSE 0

\* number of names on the INPUTS line
DeclaredInputs(L) ==
    IF L # <<>> /\ L[1].head = "INPUTS:" THEN Len(L[1].toks) ELSE 0

\* line i of the stimulus section has the wrong number of value tokens, a
\* value token other than 0 or 1, or a time that is not greater than the
\* time of the line before it
BadStimulusLine(L, i) ==
    LET parts == split(L[i])
        prev  == split(L[i - 1])
    IN  \/ Len(parts) - 1 # DeclaredInputs(L)
        \/ \E k \in 2..Len(parts) : parts[k] \notin {"0", "1"}
        \/ /\ i - 1 > StimHeader(L)
           /\ is_int(parts[1]) /\ is_int(prev[1])
           /\ int(parts[1]) <= int(prev[1])

HasBadStimulusLine ==
    LET L == lines(text) IN
    /\ StimHeader(L) > 0
    /\ \E i \in (StimHeader(L) + 1)..Len(L) : BadStimulusLine(L, i)

\* C9: a file whose stimulus section has a line with the wrong number of
\* value tokens, a time not greater than the previous line's, or a value
\* token other than 0 or 1 is rejected by parse_netlist, before anything is
\* simulated; in an accepted netlist the times increase strictly and every
\* value vector has one binary value per primary input.
C9_StimulusChecked ==
    /\ (pc # "start" /\ HasBadStimulusLine) =>
          /\ pc = "error"
          /\ err # CyclicMsg /\ err # "KeyError"
          /\ ~Accepted
          /\ order = <<>> /\ waves = EmptyMap /\ js = <<>>
    /\ Accepted =>
          /\ \A k \in 1..Len(parsed.stimuli) :
                /\ Len(parsed.stimuli[k][2]) = Len(parsed.inputs)
                /\ \A p \in 1..Len(parsed.stimuli[k][2]) :
                      parsed.stimuli[k][2][p] \in {"0", "1"}
          /\ \A k \in 2..Len(parsed.stimuli) :
                parsed.stimuli[k - 1][1] < parsed.stimuli[k][1]

\* a file with two stimulus lines of the same time was rejected
C9_Witness ==
    /\ pc = "error"
    /\ err = "Stimulus times must be strictly increasing"
    /\ LET L == lines(text) IN
       /\ Len(L) = StimHeader(L) + 2
       /\ split(L[Len(L)])[1] = split(L[Len(L) - 1])[1]

\* C10: in an accepted netlist the primary input names are pairwise
\* distinct, the gate output names are pairwise distinct, and no gate
\* output name is a primary input name.
C10_UniqueNames ==
    Accepted =>
        /\ \A p, q \in 1..Len(parsed.inputs) :
              p # q => parsed.inputs[p] # parsed.inputs[q]
        /\ \A j, k \in 1..Len(parsed.gates) :
              j # k => parsed.gates[j].name # parsed.gates[k].name
        /\ \A k \in 1..Len(parsed.gates) :
              parsed.gates[k].name \notin set_of(parsed.inputs)

\* ---- the phases of main ----
\* parse_netlist raises on the text of the file
ParseFailed == pc # "start" /\ parse_netlist(text).err # ""

\* no stimulus event has been taken: nothing bound, evaluated or recorded
NothingSimulated ==
    ev = 0 /\ gi = 0 /\ signals = EmptyMap /\ DOMAIN waves = {}

\* the steps from one position of main to the next
PhaseSteps ==
    {<<"start", "parsed">>, <<"start", "error">>, <<"parsed", "topo">>,
     <<"topo", "event">>, <<"topo", "error">>, <<"event", "eval">>,
     <<"eval", "event">>, <<"eval", "error">>, <<"event", "simulated">>,
     <<"simulated", "done">>}

\* C11: the phases run in the order parse, resolve, simulate, write. When
\* parse_netlist or topo_sort fails, the run ends there: no stimulus event
\* is evaluated and no document is written. Resolution works on the netlist
\* parse_netlist returned, events are simulated only once the order is
\* complete, and the document is written only by the step that follows the
\* return of simulate, after every stimulus event was simulated without
\* error.
C11_PhaseOrder ==
    /\ []((ParseFailed \/ TopoRaised) =>
            pc = "error" /\ NothingSimulated /\ js = <<>>)
    /\ [](ParseFailed => err = parse_netlist(text).err /\ order = <<>>)
    /\ [](pc \in {"parsed", "topo"} => Accepted /\ NothingSimulated)
    /\ [](pc \in {"event", "eval"} =>
            ready = <<>> /\ Len(order) = Len(parsed.gates))
    /\ [](pc = "error" => js = <<>>)
    /\ [](js # <<>> =>
            pc = "done" /\ err = "" /\ ev = Len(parsed.stimuli))
    /\ [][pc' # pc => <<pc, pc'>> \in PhaseSteps]_vars
    /\ [][js' # js =>
            /\ pc = "simulated" /\ pc' = "done"
            /\ ev = Len(parsed.stimuli) /\ err = ""]_vars

\* the document was written after two stimulus events over two gates
C11_Witness ==
    /\ pc = "done"
    /\ js # <<>>
    /\ ev = 2
    /\ Len(parsed.gates) = 2

\* ---- ties between eligible gates ----
\* the gates not yet emitted whose gate dependencies are all emitted
Eligible(G, emitted) ==
    {g \in gate_names(G) \ emitted :
        \A a \in set_of(find_gate(G, g).inputs) :
            a \in gate_names(G) => a \in emitted}

\* position of gate n in the GATES section
Declared(G, n) == CHOOSE k \in 1..Len(G) : G[k].name = n

\* C12: every gate topo_sort emits is, among the gates eligible at that
\* moment (not yet emitted, all gate dependencies emitted), the one declared
\* earliest in the GATES section.
C12_DeclarationOrderTies ==
    \A k \in 1..Len(order) :
        LET emitted == {order[j][1] : j \in 1..(k - 1)} IN
        \A g \in Eligible(parsed.gates, emitted) :
            Declared(parsed.gates, order[k][1]) <= Declared(parsed.gates, g)

\* C13: once parse_netlist and topo_sort have succeeded, simulate raises
\* nothing: every argument of the gate about to be evaluated has a value in
\* signals, and every primary input and primary output has one when the
\* event is recorded.
C13_SimulateNeverRaises ==
    /\ (Accepted /\ pc = "error") => TopoRaised
    /\ (pc = "eval" /\ gi < Len(order)) =>
          set_of(find_gate(parsed.gates, order[gi + 1][1]).inputs)
              \subseteq DOMAIN signals
    /\ (pc = "eval" /\ gi = Len(order)) =>
          set_of(parsed.inputs \o parsed.outputs) \subseteq DOMAIN signals

\* ---- evaluation in any topological order ----
\* the entries (name, kind) of the gates
Entries(G) == {<<G[k].name, G[k].type>> : k \in 1..Len(G)}

\* the orders that hold every gate once and every gate after the gates it
\* reads
ValidOrders(G) ==
    {o \in Seqs(Entries(G), Len(G)) :
        /\ \A g \in gate_names(G) : \E k \in 1..Len(o) : o[k][1] = g
        /\ \A k \in 1..Len(G) : \A a \in set_of(G[k].inputs) :
              a \in gate_names(G) => Pos(o, a) < Pos(o, G[k].name)}

\* the order that takes, each time, the earliest declared eligible gate
RECURSIVE DeclarationOrder(_, _)
DeclarationOrder(G, o) ==
    LET emitted == {o[j][1] : j \in 1..Len(o)}
        el == Eligible(G, emitted)
    IN  IF el = {} THEN o
        ELSE LET k == CHOOSE k \in 1..Len(G) :
                          /\ G[k].name \in el
                          /\ \A g \in el : k <= Declared(G, g)
             IN  DeclarationOrder(G, Append(o, <<G[k].name, G[k].type>>))

\* C14: for an acyclic netlist with every name defined, while an event is
\* evaluated, finishing the event in the order topo_sort returned and
\* evaluating its gates in any valid topological order (the
\* declaration-order tie-break order is one) raise nothing and leave the
\* same value for every signal, hence record the same traces.
C14_OrderIndependent ==
    (pc = "eval" /\ WellFormed(parsed)) =>
        LET G == parsed.gates
            names == parsed.inputs \o parsed.outputs
            mine == eval_order(signals, G, order, gi + 1)
        IN  /\ order \in ValidOrders(G)
            /\ DeclarationOrder(G, <<>>) \in ValidOrders(G)
            /\ \A o \in ValidOrders(G) :
                  LET other == eval_order(signals, G, o, 1) IN
                  /\ mine.err = "" /\ other.err = ""
                  /\ other.signals = mine.signals
                  /\ record_waves(names, waves, other.signals)
                         = record_waves(names, waves, mine.signals)

\* the gates of the second event are about to be evaluated, the netlist
\* has three topological orders and topo_sort did not return the
\* declaration-order one
C14_Witness ==
    /\ pc = "eval" /\ gi = 0 /\ ev = 1
    /\ WellFormed(parsed)
    /\ Cardinality(ValidOrders(parsed.gates)) = 3
    /\ order # DeclarationOrder(parsed.gates, <<>>)

\* ---- values left in the signal table by earlier events ----
\* the names read by the next step of the event in progress: the arguments
\* of the gate about to be evaluated, the tracked names when all gates are
\* evaluated
NamesRead ==
    IF gi < Len(order)
    THEN set_of(find_gate(parsed.gates, order[gi + 1][1]).inputs)
    ELSE set_of(parsed.inputs \o parsed.outputs)

\* no value that is read was left by an earlier event
NoStaleValue ==
    pc = "eval" =>
        \A a \in NamesRead \cap DOMAIN signals : written[a] = ev + 1

\* C15: the signal table is never cleared between the events of a call,
\* yet whenever a gate is evaluated during an event, every one of its
\* arguments holds a value written during that event (by the binding of the
\* inputs or by a gate evaluated earlier in the event), and every value
\* appended to a trace was written during the event it is recorded for; no
\* value read at any step was left by an earlier event.
C15_ValuesOfThisEvent ==
    /\ []NoStaleValue
    /\ [](pc = "eval" => DOMAIN written = DOMAIN signals)
    /\ [][(pc = "eval" /\ gi' = gi + 1) =>
            /\ DOMAIN signals \subseteq DOMAIN signals'
            /\ LET g == find_gate(parsed.gates, order[gi'][1]) IN
               \A a \in set_of(g.inputs) :
                   a \in DOMAIN signals /\ written[a] = ev + 1]_vars
    /\ [][pc = "eval" =>
            \A n \in DOMAIN waves :
                waves'[n] # waves[n] =>
                    /\ n \in DOMAIN signals /\ written[n] = ev + 1
                    /\ \E c \in 1..Len(parsed.inputs \o parsed.outputs) :
                          waves'[n] =
                              waves[n] \o [j \in 1..c |-> signals[n]]]_vars

\* the two gates of the second event are evaluated, and the value of the
\* last one differs from its value in the first event
C15_Witness ==
    /\ pc = "eval" /\ ev = 1 /\ Len(order) = 2 /\ gi = 2
    /\ LET g == order[2][1] IN
       /\ g \in DOMAIN waves
       /\ signals[g] # waves[g][1]

\* ---- gate argument tokens ----
\* index in lines(text) of the GATES: header, 0 when there is none
GatesHeader(L) ==
    IF \E i \in 1..Len(L) : L[i].head = "GATES:"
    THEN CHOOSE i \in 1..Len(L) :
             L[i].head = "GATES:" /\ \A j \in 1..(i - 1) : L[j].head # "GATES:"
    ELSE 0

\* some line of the GATES section has an argument that is not an identifier
HasBadArgToken ==
    LET L == lines(text)
        last == IF StimHeader(L) > 0 THEN StimHeader(L) - 1 ELSE Len(L)
    IN  /\ GatesHeader(L) > 0
        /\ \E i \in (GatesHeader(L) + 1)..last :
              /\ L[i].head = "gate"
              /\ \E k \in 3..Len(L[i].toks) : L[i].toks[k] \notin IdentToks

\* C16: a file with a GATES line that has an argument token that is not an
\* identifier (empty, starting with a digit, or holding a blank) is
\* rejected by parse_netlist, and every gate argument of an accepted netlist
\* is an identifier.
C16_ArgsAreIdentifiers ==
    /\ (pc # "start" /\ HasBadArgToken) => (pc = "error" /\ ~Accepted)
    /\ Accepted =>
          \A k \in 1..Len(parsed.gates) :
              \A a \in set_of(parsed.gates[k].inputs) : a \in IdentToks

\* ---- the time of the first stimulus line ----
\* the file is accepted up to its STIMULUS: header and the first stimulus
\* line has one token per input after a negative time
NegativeFirstTime ==
    LET L == lines(text)
        h == StimHeader(L)
    IN  /\ h > 0 /\ Len(L) > h
        /\ parse_netlist(SubSeq(L, 1, h)).err = ""
        /\ LET parts == split(L[h + 1]) IN
           /\ Len(parts) - 1 = DeclaredInputs(L)
           /\ is_int(parts[1])
           /\ int(parts[1]) < 0

\* C17: every stimulus time of an accepted netlist is a non-negative
\* integer, and a file whose first stimulus line has a negative time is
\* rejected by parse_netlist with the strictly-increasing error, although
\* no stimulus line stands before it.
C17_TimesNonNegative ==
    /\ Accepted =>
          \A k \in 1..Len(parsed.stimuli) : parsed.stimuli[k][1] \in Nat
    /\ (pc # "start" /\ NegativeFirstTime) =>
          /\ pc = "error"
          /\ err = "Stimulus times must be strictly increasing"
          /\ ~Accepted

\* a file whose only stimulus line has the time -1 and binary values was
\* rejected with the strictly-increasing error
C17_Witness ==
    /\ pc = "error"
    /\ err = "Stimulus times must be strictly increasing"
    /\ NegativeFirstTime
    /\ LET L == lines(text) IN
       /\ Len(L) = StimHeader(L) + 1
       /\ \A k \in 2..Len(split(L[Len(L)])) :
             split(L[Len(L)])[k] \in {"0", "1"}

====
